---- MODULE Spec2Model ----
(***************************************************************************)
(* Word-stress classifier (WordStress/Test and WordStress/Test-Copy1):     *)
(* vocabulary, encoding, batching, masked loss / decode, and the train /   *)
(* predict runs of main with the checkpoint and the submission file.       *)
(*                                                                         *)
(* Characters are code points 1..; the '<PAD>' key of char2idx is the key  *)
(* 0, which no character has.  Tensors of floats are abstracted: the       *)
(* parameter set of a model is one value w of Weights, a hidden state and  *)
(* a logit are residues modulo HMod, and a cross-entropy value is the      *)
(* symbolic term [logits, target] it was computed from.  embed_dim and     *)
(* hidden_size are the same in every run of the notebooks (64, 128) and    *)
(* are not part of the model's shape here.                                 *)
(***************************************************************************)
EXTENDS Integers, Sequences, FiniteSets

\* ------------------------------------------------------------- bounds
MaxRows == 2
MaxSyllables == 2
MaxEpochs == 2
MaxBatchSize == 2
NumWeights == 2
HMod == 3
HarnessClasses == 3

\* ------------------------------------------------- program constants
NumClassesDefault == 6
IgnoreIndex == -100

PAD == 0
NoFile == [exists |-> FALSE]
NoModel == [built |-> FALSE]

Weights == 0 .. (NumWeights - 1)
LogitVals == 0 .. (HMod - 1)
Notebooks == {"Test", "Copy1"}
TrainWords == {<<>>, <<1>>, <<2, 1>>}
TestWords == {<<>>, <<1>>, <<2, 1>>, <<3, 1>>}
\* The num_syllables column: small counts, and one count above Copy1's
\* fixed number of classes.
SyllableVals == ((-1) .. MaxSyllables) \cup {NumClassesDefault + 1}
StressVals == 0 .. (MaxSyllables + 1)
IdVals == {7, 9}

\* ---------------------------------------------------------- helpers
Min(a, b) == IF a < b THEN a ELSE b

Max(a, b) == IF a > b THEN a ELSE b

RECURSIVE SumSeq(_)
SumSeq(s) == IF s = <<>> THEN 0 ELSE s[1] + SumSeq(Tail(s))

Reverse(s) == [p \in 1 .. Len(s) |-> s[Len(s) + 1 - p]]

\* Python's max() over a non-empty list.
RECURSIVE MaxOfSeq(_)
MaxOfSeq(s) == IF Len(s) = 1 THEN s[1] ELSE Max(s[1], MaxOfSeq(Tail(s)))

\* Python's s[:k]: a negative stop counts from the end, and the stop is
\* clamped to the length.
Slice(s, k) ==
    LET stop == IF k < 0 THEN Max(Len(s) + k, 0) ELSE Min(k, Len(s))
    IN  SubSeq(s, 1, stop)

\* sorted(list(chars)): ascending code points.
RECURSIVE SortedSeq(_)
SortedSeq(S) ==
    IF S = {} THEN <<>>
    ELSE LET m == CHOOSE x \in S : \A y \in S : x <= y
         IN  <<m>> \o SortedSeq(S \ {m})

\* ------------------------------------------- vocabulary and encoding
WordChars(words) == UNION {{words[i][p] : p \in 1 .. Len(words[i])} : i \in 1 .. Len(words)}

\* The characters of a word list in the order of their first occurrence.
RECURSIVE Distinct(_, _)
Distinct(s, seen) ==
    IF s = <<>> THEN <<>>
    ELSE IF s[1] \in seen THEN Distinct(Tail(s), seen)
         ELSE <<s[1]>> \o Distinct(Tail(s), seen \cup {s[1]})

RECURSIVE Flatten(_)
Flatten(words) == IF words = <<>> THEN <<>> ELSE words[1] \o Flatten(Tail(words))

\* A vocabulary numbered in order of first occurrence (no sort).
build_vocab_first_seen(words) ==
    LET chars == Distinct(Flatten(words), {})
    IN  [ch \in {chars[i] : i \in 1 .. Len(chars)} \cup {PAD} |->
            IF ch = PAD THEN 0
            ELSE (CHOOSE i \in 1 .. Len(chars) : chars[i] = ch)]

\* A vocabulary numbered from 0 (idx instead of idx + 1).
build_vocab_zero_based(words) ==
    LET chars == SortedSeq(WordChars(words))
    IN  [ch \in {chars[i] : i \in 1 .. Len(chars)} \cup {PAD} |->
            IF ch = PAD THEN 0
            ELSE (CHOOSE i \in 1 .. Len(chars) : chars[i] = ch) - 1]

build_vocab(words) ==
    LET chars == SortedSeq(WordChars(words))
    IN  [ch \in {chars[i] : i \in 1 .. Len(chars)} \cup {PAD} |->
            IF ch = PAD THEN 0
            ELSE (CHOOSE i \in 1 .. Len(chars) : chars[i] = ch)]

idx2char(char2idx) ==
    [idx \in {char2idx[ch] : ch \in DOMAIN char2idx} |->
        CHOOSE ch \in DOMAIN char2idx : char2idx[ch] = idx]

\* An encoding that gives an unknown character the index len(char2idx).
encode_word_unknown_as_len(word, char2idx) ==
    [p \in 1 .. Len(word) |->
        IF word[p] \in DOMAIN char2idx THEN char2idx[word[p]]
        ELSE Cardinality(DOMAIN char2idx)]

\* An encoding that gives an unknown character the index 1.
encode_word_unknown_as_one(word, char2idx) ==
    [p \in 1 .. Len(word) |->
        IF word[p] \in DOMAIN char2idx THEN char2idx[word[p]] ELSE 1]

encode_word(word, char2idx) ==
    [p \in 1 .. Len(word) |->
        IF word[p] \in DOMAIN char2idx THEN char2idx[word[p]] ELSE 0]

\* ----------------------------------------------------------- dataset
\* A csv table: a sequence of rows [id, word, num_syllables, stress]; a test
\* table has no stress column (stress is not read in mode 'test').
StressDatasetFromVocab(csv, char2idx, mode) ==
    [mode |-> mode,
     words |-> [i \in 1 .. Len(csv) |-> csv[i].word],
     stresses |-> IF mode = "train" THEN [i \in 1 .. Len(csv) |-> csv[i].stress] ELSE <<>>,
     num_syllables |-> [i \in 1 .. Len(csv) |-> csv[i].num_syllables],
     ids |-> [i \in 1 .. Len(csv) |-> csv[i].id],
     char2idx |-> char2idx,
     encoded_words |-> [i \in 1 .. Len(csv) |-> encode_word(csv[i].word, char2idx)]]

\* StressDataset(csv_file, char2idx=None, mode): the vocabulary is built
\* from the table's own words.
StressDatasetBuild(csv, mode) ==
    StressDatasetFromVocab(csv, build_vocab([i \in 1 .. Len(csv) |-> csv[i].word]), mode)

\* A constructor that rebuilds the vocabulary from the table it is given.
StressDataset_rebuilt(csv, given, mode) == StressDatasetBuild(csv, mode)

\* StressDataset.__init__: the vocabulary handed in is used as it is; it is
\* built only when none is handed in (given = <<>> for None).
StressDataset(csv, given, mode) ==
    IF given = <<>> THEN StressDatasetBuild(csv, mode)
    ELSE StressDatasetFromVocab(csv, given[1], mode)

NoDataset == StressDatasetFromVocab(<<>>, [ch \in {PAD} |-> 0], "none")

getitem(ds, idx) ==
    [id |-> ds.ids[idx],
     word |-> ds.words[idx],
     encoded |-> ds.encoded_words[idx],
     num_syllables |-> ds.num_syllables[idx],
     stress |-> IF ds.mode = "train" THEN <<ds.stresses[idx]>> ELSE <<>>]

\* ------------------------------------------------------------ batches
PadTo(seq, n) == [p \in 1 .. n |-> IF p <= Len(seq) THEN seq[p] ELSE 0]

\* A batch whose lengths are the padded width.
collate_fn_padded_lengths(items) ==
    LET lengths == [i \in 1 .. Len(items) |-> Len(items[i].encoded)]
        width == IF Len(items) = 0 THEN 0 ELSE MaxOfSeq(lengths)
    IN  [id |-> [i \in 1 .. Len(items) |-> items[i].id],
         encoded |-> [i \in 1 .. Len(items) |-> PadTo(items[i].encoded, width)],
         lengths |-> [i \in 1 .. Len(items) |-> width],
         num_syllables |-> [i \in 1 .. Len(items) |-> items[i].num_syllables],
         stress |-> IF Len(items) > 0 /\ items[1].stress # <<>>
                      THEN [i \in 1 .. Len(items) |-> items[i].stress[1]]
                      ELSE <<>>]

collate_fn(items) ==
    LET lengths == [i \in 1 .. Len(items) |-> Len(items[i].encoded)]
        width == IF Len(items) = 0 THEN 0 ELSE MaxOfSeq(lengths)
    IN  [id |-> [i \in 1 .. Len(items) |-> items[i].id],
         encoded |-> [i \in 1 .. Len(items) |-> PadTo(items[i].encoded, width)],
         lengths |-> lengths,
         num_syllables |-> [i \in 1 .. Len(items) |-> items[i].num_syllables],
         stress |-> IF Len(items) > 0 /\ items[1].stress # <<>>
                      THEN [i \in 1 .. Len(items) |-> items[i].stress[1]]
                      ELSE <<>>]

NoBatch == collate_fn(<<>>)

\* DataLoader: len(dataloader) with drop_last=False.
NumBatches(n, batch_size) == (n + batch_size - 1) \div batch_size

\* The b-th batch (b from 0) of a loader that visits the dataset's rows in
\* `order`.
LoaderBatch(ds, order, batch_size, b) ==
    LET first == b * batch_size + 1
        last == Min((b + 1) * batch_size, Len(order))
    IN  collate_fn([i \in 1 .. (last - first + 1) |-> getitem(ds, order[first + i - 1])])

Orders(n) == {f \in [1 .. n -> 1 .. n] : \A i, j \in 1 .. n : f[i] = f[j] => i = j}

\* A sampler that draws each position independently (with replacement).
TrainLoaderOrders_with_replacement(n) == [1 .. n -> 1 .. n]

\* shuffle=True draws a fresh permutation for each pass.
TrainLoaderOrders(n) == Orders(n)

\* shuffle=False: the rows in the table's order.
SequentialOrder(n) == [i \in 1 .. n |-> i]

\* -------------------------------------------------------------- model
\* StressModel(vocab_size, num_classes): Test is bidirectional without
\* dropout, Copy1 is unidirectional with nn.Dropout(0.2).  The initial
\* parameters are random: w0.
StressModel(nb, vocab_size, num_classes, w0) ==
    [built |-> TRUE,
     vocab_size |-> vocab_size,
     num_classes |-> num_classes,
     dirs |-> IF nb = "Test" THEN 2 ELSE 1,
     dropout |-> nb = "Copy1",
     w |-> w0,
     training |-> TRUE]

\* nn.Linear(_, num_classes) refuses a negative size (zero is accepted).
StressModelRaises(num_classes) == num_classes < 0

\* The shapes of the tensors of model.state_dict(): embedding.weight,
\* lstm.* (with the *_reverse keys when bidirectional), fc.weight, fc.bias.
ShapeOf(m) == [vocab_size |-> m.vocab_size, num_classes |-> m.num_classes, dirs |-> m.dirs]

state_dict(m) == [shape |-> ShapeOf(m), w |-> m.w]

\* nn.Embedding(vocab_size, _, padding_idx=0): row 0 is the zero vector.
Embedding(w, idx) == IF idx = 0 THEN 0 ELSE (w + idx) % HMod

LstmCell(w, h, x) == (2 * h + x + w + 1) % HMod

RECURSIVE LstmRun(_, _, _)
LstmRun(w, h, xs) == IF xs = <<>> THEN h ELSE LstmRun(w, LstmCell(w, h, xs[1]), Tail(xs))

\* A recurrence that runs over the whole padded row.
Summary_over_padding(m, row, length) ==
    LET xs == [p \in 1 .. Len(row) |-> Embedding(m.w, row[p])]
        h_forward == LstmRun(m.w, 0, xs)
        h_backward == LstmRun(m.w + 1, 0, Reverse(xs))
    IN  IF m.dirs = 2 THEN <<h_forward, h_backward>> ELSE <<h_forward>>

\* pack_padded_sequence + LSTM: the recurrence runs over the first `length`
\* positions only; h_n[0] is the forward final state, h_n[1] the backward.
Summary(m, row, length) ==
    LET xs == [p \in 1 .. length |-> Embedding(m.w, row[p])]
        h_forward == LstmRun(m.w, 0, xs)
        h_backward == LstmRun(m.w + 1, 0, Reverse(xs))
    IN  IF m.dirs = 2 THEN <<h_forward, h_backward>> ELSE <<h_forward>>

\* self.dp(h): in training mode an element is kept or zeroed; in eval mode
\* (and in Test, which has no dropout) h passes unchanged.
DropoutOutcomes(m, h) ==
    IF m.dropout /\ m.training
        THEN {hd \in [1 .. Len(h) -> LogitVals] : \A p \in 1 .. Len(h) : hd[p] \in {h[p], 0}}
        ELSE {h}

Fc(m, h) == [j \in 1 .. m.num_classes |-> (SumSeq(h) * j + m.w + j) % HMod]

\* pack_padded_sequence refuses a length <= 0; the embedding lookup refuses
\* an index outside [0, vocab_size).
forwardRaises(m, x, lengths) ==
    \/ \E i \in 1 .. Len(lengths) : lengths[i] <= 0
    \/ \E i \in 1 .. Len(x) : \E p \in 1 .. Len(x[i]) : x[i][p] < 0 \/ x[i][p] >= m.vocab_size

\* The logits forward can return: one matrix (batch x num_classes) per choice
\* of the dropout mask.
ForwardRow(m, row, length) ==
    {Fc(m, hd) : hd \in DropoutOutcomes(m, Summary(m, row, length))}

RECURSIVE ForwardFrom(_, _, _, _)
ForwardFrom(m, x, lengths, i) ==
    IF i > Len(x) THEN {<<>>}
    ELSE {<<r>> \o rest : r \in ForwardRow(m, x[i], lengths[i]),
                          rest \in ForwardFrom(m, x, lengths, i + 1)}

forward(m, x, lengths) == ForwardFrom(m, x, lengths, 1)

\* ------------------------------------------------ masked loss / decode
\* nn.functional.cross_entropy on one example: a target outside [0, n) is
\* refused unless it is ignore_index.
cross_entropyRaises(logit_i, target) ==
    target # IgnoreIndex /\ (target < 0 \/ target >= Len(logit_i))

cross_entropy(logit_i, target) == [logits |-> logit_i, target |-> target]

masked_cross_entropy_lossRaises(lg, stresses, num_syllables) ==
    \E i \in 1 .. Len(lg) :
        cross_entropyRaises(Slice(lg[i], num_syllables[i]), stresses[i] - 1)

\* A loss whose cross-entropy runs over the whole row.
masked_cross_entropy_loss_unmasked(lg, stresses, num_syllables) ==
    [terms |-> [i \in 1 .. Len(lg) |-> cross_entropy(lg[i], stresses[i] - 1)],
     div |-> Len(lg)]

\* batch_loss / batch_size, batch_loss the sum of the terms in row order.
masked_cross_entropy_loss(lg, stresses, num_syllables) ==
    [terms |-> [i \in 1 .. Len(lg) |->
                  cross_entropy(Slice(lg[i], num_syllables[i]), stresses[i] - 1)],
     div |-> Len(lg)]

NoLoss == masked_cross_entropy_loss(<<>>, <<>>, <<>>)

\* torch.argmax of a 1-d tensor (0-indexed): the first maximal element;
\* an empty tensor is refused.
argmaxRaises(v) == Len(v) = 0

RECURSIVE ArgmaxScan(_, _, _)
ArgmaxScan(v, best, j) ==
    IF j > Len(v) THEN best - 1
    ELSE ArgmaxScan(v, IF v[j] > v[best] THEN j ELSE best, j + 1)

argmax(v) == ArgmaxScan(v, 1, 2)

\* A decode whose argmax runs over the whole row.
decode_unmasked(logit_row, valid_len) == argmax(logit_row)

\* The decode of one example of evaluate_model / predict (0-indexed).
decode(logit_row, valid_len) == argmax(Slice(logit_row, valid_len))

decodeRaises(lg, num_syllables) ==
    \E i \in 1 .. Len(lg) : argmaxRaises(Slice(lg[i], num_syllables[i]))

\* strict=False over mismatching shapes: nothing raises, and the parameters
\* that do not fit keep their initial values.
load_state_dict_nonstrict(m, sd) ==
    [raises |-> FALSE,
     model |-> IF sd.shape = ShapeOf(m) THEN [m EXCEPT !.w = sd.w] ELSE m]

\* A load that checks the shapes and leaves the parameters as constructed.
load_state_dict_keep_init(m, sd) ==
    [raises |-> sd.shape # ShapeOf(m), model |-> m]

\* load_state_dict (strict): a missing or unexpected key or a size mismatch
\* raises; otherwise the parameters are those of the state dict.
load_state_dict(m, sd) ==
    IF sd.shape # ShapeOf(m)
        THEN [raises |-> TRUE, model |-> m]
        ELSE [raises |-> FALSE, model |-> [m EXCEPT !.w = sd.w]]

\* -------------------------------------------------------------- state
VARIABLES
    ckpt,          \* the file args.model_path
    submission,    \* the file args.output
    run,           \* how many runs of main have been started
    pc,            \* where the current run of main is
    args,          \* the Args of the current run
    dataset,       \* train_dataset / test_dataset
    model,         \* the StressModel of the current run
    epoch,         \* epochs completed
    order,         \* the row order of the loader being iterated
    pos,           \* batches of the current pass already processed
    batch,         \* the batch being processed
    logits,        \* the logits of the batch being processed
    loss,          \* the loss of the batch being processed
    correct,       \* evaluate_model's counters
    total,
    predictions,   \* predict's lists
    ids_all,
    saves,         \* torch.save calls of the current run
    presave        \* the in-memory model that torch.save last serialised

vars == <<ckpt, submission, run, pc, args, dataset, model, epoch, order, pos, batch,
          logits, loss, correct, total, predictions, ids_all, saves, presave>>

files == <<ckpt, submission>>

NoArgs == [mode |-> "none", nb |-> "none", batch_size |-> 1, epochs |-> 0]

TrainRowVals == [id : {1}, word : TrainWords, num_syllables : SyllableVals, stress : StressVals]

TestRowVals == [id : IdVals, word : TestWords, num_syllables : SyllableVals, stress : {0}]

\* train.csv: the id column is the row number (it is carried through
\* collate_fn and never read in a train run).
TrainCsv(t) == [i \in 1 .. Len(t) |-> [t[i] EXCEPT !.id = i]]

\* test.csv: the ids of a table are distinct.
IsTestCsv(t) == \A i, j \in 1 .. Len(t) : t[i].id = t[j].id => i = j

LocalsInit ==
    /\ args = NoArgs
    /\ dataset = NoDataset
    /\ model = NoModel
    /\ epoch = 0
    /\ order = <<>>
    /\ pos = 0
    /\ batch = NoBatch
    /\ logits = <<>>
    /\ loss = NoLoss
    /\ correct = 0
    /\ total = 0
    /\ predictions = <<>>
    /\ ids_all = <<>>
    /\ saves = 0

Init ==
    /\ ckpt = NoFile
    /\ submission = NoFile
    /\ run = 0
    /\ pc = "idle"
    /\ presave = NoModel
    /\ LocalsInit

\* An uncaught exception ends the run; nothing else changes.
Abort(unchanged) == pc' = "aborted" /\ UNCHANGED unchanged

\* --------------------------------------------------------- train run
\* main, mode 'train', up to the epoch loop.  Test sizes the model by
\* max(train_dataset.num_syllables); Copy1 leaves num_classes at its default.
MainTrain ==
    /\ pc = "idle" /\ run = 0
    /\ run' = run + 1
    /\ \E nb \in Notebooks, n \in 0 .. MaxRows, bs \in 1 .. MaxBatchSize,
          E \in 1 .. MaxEpochs, w0 \in Weights :
      \E t \in [1 .. n -> TrainRowVals] :
        LET csv == TrainCsv(t)
            ds == StressDataset(csv, <<>>, "train")
            maxRaises == nb = "Test" /\ Len(csv) = 0
            C == IF nb = "Test" THEN MaxOfSeq(ds.num_syllables) ELSE NumClassesDefault
        IN  /\ args' = [mode |-> "train", nb |-> nb, batch_size |-> bs, epochs |-> E]
            /\ dataset' = ds
            /\ IF maxRaises \/ StressModelRaises(C)
                 THEN /\ pc' = "aborted"
                      /\ model' = model
                 ELSE /\ pc' = "t_epoch"
                      /\ model' = StressModel(nb, Cardinality(DOMAIN ds.char2idx), C, w0)
    /\ UNCHANGED <<files, epoch, order, pos, batch, logits, loss, correct, total,
                   predictions, ids_all, saves, presave>>

\* A train_model that does not call model.train().
TrainBegin_no_train_call ==
    /\ pc = "t_epoch" /\ epoch < args.epochs
    /\ model' = model
    /\ pos' = 0
    /\ \E o \in TrainLoaderOrders(Len(dataset.words)) : order' = o
    /\ pc' = IF NumBatches(Len(dataset.words), args.batch_size) = 0 THEN "aborted" ELSE "t_fwd"
    /\ UNCHANGED <<files, run, args, dataset, epoch, batch, logits, loss, correct, total,
                   predictions, ids_all, saves, presave>>

\* train_model up to its first batch: model.train() and the loader's
\* shuffled order.  With no batch the function ends in its division by
\* len(dataloader).
TrainBegin ==
    /\ pc = "t_epoch" /\ epoch < args.epochs
    /\ model' = [model EXCEPT !.training = TRUE]
    /\ pos' = 0
    /\ \E o \in TrainLoaderOrders(Len(dataset.words)) : order' = o
    /\ pc' = IF NumBatches(Len(dataset.words), args.batch_size) = 0 THEN "aborted" ELSE "t_fwd"
    /\ UNCHANGED <<files, run, args, dataset, epoch, batch, logits, loss, correct, total,
                   predictions, ids_all, saves, presave>>

\* One iteration of train_model: zero_grad and the forward pass.
TrainForward ==
    /\ pc = "t_fwd"
    /\ batch' = LoaderBatch(dataset, order, args.batch_size, pos)
    /\ IF forwardRaises(model, batch'.encoded, batch'.lengths)
         THEN Abort(<<logits>>)
         ELSE /\ pc' = "t_loss"
              /\ \E lg \in forward(model, batch'.encoded, batch'.lengths) : logits' = lg
    /\ UNCHANGED <<files, run, args, dataset, model, epoch, order, pos, loss, correct, total,
                   predictions, ids_all, saves, presave>>

\* ... the masked loss of the batch.
TrainLoss ==
    /\ pc = "t_loss"
    /\ IF masked_cross_entropy_lossRaises(logits, batch.stress, batch.num_syllables)
         THEN Abort(<<loss>>)
         ELSE /\ pc' = "t_step"
              /\ loss' = masked_cross_entropy_loss(logits, batch.stress, batch.num_syllables)
    /\ UNCHANGED <<files, run, args, dataset, model, epoch, order, pos, batch, logits,
                   correct, total, predictions, ids_all, saves, presave>>

\* ... loss.backward() and optimizer.step(): the parameters change.
TrainStep ==
    /\ pc = "t_step"
    /\ \E w2 \in Weights : model' = [model EXCEPT !.w = w2]
    /\ pos' = pos + 1
    /\ pc' = IF pos + 1 < NumBatches(Len(dataset.words), args.batch_size)
               THEN "t_fwd" ELSE "e_begin"
    /\ UNCHANGED <<files, run, args, dataset, epoch, order, batch, logits, loss, correct,
                   total, predictions, ids_all, saves, presave>>

\* evaluate_model up to its first batch: model.eval() and the counters.
EvalBegin ==
    /\ pc = "e_begin"
    /\ model' = [model EXCEPT !.training = FALSE]
    /\ correct' = 0
    /\ total' = 0
    /\ pos' = 0
    /\ order' = SequentialOrder(Len(dataset.words))
    /\ pc' = IF NumBatches(Len(dataset.words), args.batch_size) = 0 THEN "e_end" ELSE "e_fwd"
    /\ UNCHANGED <<files, run, args, dataset, epoch, batch, logits, loss, predictions,
                   ids_all, saves, presave>>

\* An evaluation forward pass that also moves the parameters.
EvalForward_with_step ==
    /\ pc = "e_fwd"
    /\ batch' = LoaderBatch(dataset, order, args.batch_size, pos)
    /\ IF forwardRaises(model, batch'.encoded, batch'.lengths)
         THEN Abort(<<logits, model>>)
         ELSE /\ pc' = "e_decode"
              /\ \E lg \in forward(model, batch'.encoded, batch'.lengths) : logits' = lg
              /\ model' = [model EXCEPT !.w = (model.w + 1) % NumWeights]
    /\ UNCHANGED <<files, run, args, dataset, epoch, order, pos, loss, correct, total,
                   predictions, ids_all, saves, presave>>

EvalForward ==
    /\ pc = "e_fwd"
    /\ batch' = LoaderBatch(dataset, order, args.batch_size, pos)
    /\ IF forwardRaises(model, batch'.encoded, batch'.lengths)
         THEN Abort(<<logits>>)
         ELSE /\ pc' = "e_decode"
              /\ \E lg \in forward(model, batch'.encoded, batch'.lengths) : logits' = lg
    /\ UNCHANGED <<files, run, args, dataset, model, epoch, order, pos, loss, correct, total,
                   predictions, ids_all, saves, presave>>

\* The number of rows of the batch whose restricted argmax is stress - 1.
CorrectInBatch(lg, b) ==
    Cardinality({i \in 1 .. Len(lg) : decode(lg[i], b.num_syllables[i]) = b.stress[i] - 1})

\* An inner loop that counts batch_size examples for every batch.
EvalDecode_full_batches ==
    /\ pc = "e_decode"
    /\ IF decodeRaises(logits, batch.num_syllables)
         THEN Abort(<<correct, total, pos>>)
         ELSE /\ correct' = correct + CorrectInBatch(logits, batch)
              /\ total' = total + args.batch_size
              /\ pos' = pos + 1
              /\ pc' = IF pos + 1 < NumBatches(Len(dataset.words), args.batch_size)
                         THEN "e_fwd" ELSE "e_end"
    /\ UNCHANGED <<files, run, args, dataset, model, epoch, order, batch, logits, loss,
                   predictions, ids_all, saves, presave>>

\* evaluate_model's inner loop over the rows of one batch.
EvalDecode ==
    /\ pc = "e_decode"
    /\ IF decodeRaises(logits, batch.num_syllables)
         THEN Abort(<<correct, total, pos>>)
         ELSE /\ correct' = correct + CorrectInBatch(logits, batch)
              /\ total' = total + Len(logits)
              /\ pos' = pos + 1
              /\ pc' = IF pos + 1 < NumBatches(Len(dataset.words), args.batch_size)
                         THEN "e_fwd" ELSE "e_end"
    /\ UNCHANGED <<files, run, args, dataset, model, epoch, order, batch, logits, loss,
                   predictions, ids_all, saves, presave>>

\* return correct / total, and the epoch's print.
EvalEnd ==
    /\ pc = "e_end"
    /\ IF total = 0
         THEN Abort(<<epoch>>)
         ELSE /\ epoch' = epoch + 1
              /\ pc' = "t_epoch"
    /\ UNCHANGED <<files, run, args, dataset, model, order, pos, batch, logits, loss,
                   correct, total, predictions, ids_all, saves, presave>>

\* A save that does not wait for the epoch loop to end.
SaveCheckpoint_any_epoch ==
    /\ pc = "t_epoch"
    /\ ckpt' = [exists |-> TRUE,
                model_state_dict |-> state_dict(model),
                char2idx |-> dataset.char2idx]
    /\ saves' = saves + 1
    /\ presave' = model
    /\ pc' = "done"
    /\ UNCHANGED <<submission, run, args, dataset, model, epoch, order, pos, batch, logits,
                   loss, correct, total, predictions, ids_all>>

\* torch.save({'model_state_dict': ..., 'char2idx': char2idx}, model_path)
\* after the epoch loop.
SaveCheckpoint ==
    /\ pc = "t_epoch" /\ epoch = args.epochs
    /\ ckpt' = [exists |-> TRUE,
                model_state_dict |-> state_dict(model),
                char2idx |-> dataset.char2idx]
    /\ saves' = saves + 1
    /\ presave' = model
    /\ pc' = "done"
    /\ UNCHANGED <<submission, run, args, dataset, model, epoch, order, pos, batch, logits,
                   loss, correct, total, predictions, ids_all>>

\* ------------------------------------------------------- predict run
\* main, mode 'predict', up to load_state_dict.  torch.load needs the
\* file.  Test reads test.csv first and sizes the model by
\* max(test_dataset.num_syllables); Copy1 builds the model with the default
\* num_classes and reads test.csv after the weights are loaded.
MainPredict ==
    /\ pc = "idle" /\ run <= 1
    /\ run' = run + 1
    /\ \E nb \in Notebooks, bs \in 1 .. MaxBatchSize :
        /\ args' = [mode |-> "predict", nb |-> nb, batch_size |-> bs, epochs |-> 0]
        /\ IF ~ckpt.exists
             THEN Abort(<<dataset, model>>)
             ELSE LET char2idx == ckpt.char2idx
                      vocab_size == Cardinality(DOMAIN char2idx)
                  IN  IF nb = "Test"
                        THEN \E n \in 0 .. MaxRows, w0 \in Weights :
                             \E csv \in [1 .. n -> TestRowVals] :
                               LET ds == StressDataset(csv, <<char2idx>>, "test")
                               IN  /\ IsTestCsv(csv)
                                   /\ dataset' = ds
                                   /\ IF Len(csv) = 0 \/ StressModelRaises(MaxOfSeq(ds.num_syllables))
                                        THEN Abort(<<model>>)
                                        ELSE /\ pc' = "p_load"
                                             /\ model' = StressModel(nb, vocab_size,
                                                           MaxOfSeq(ds.num_syllables), w0)
                        ELSE \E w0 \in Weights :
                               /\ pc' = "p_load"
                               /\ model' = StressModel(nb, vocab_size, NumClassesDefault, w0)
                               /\ dataset' = dataset
    /\ UNCHANGED <<files, epoch, order, pos, batch, logits, loss, correct, total,
                   predictions, ids_all, saves, presave>>

\* model.load_state_dict(checkpoint['model_state_dict']), and in Copy1 the
\* test dataset, encoded with the checkpoint's char2idx.
LoadStateDict ==
    /\ pc = "p_load"
    /\ LET r == load_state_dict(model, ckpt.model_state_dict)
       IN  IF r.raises
             THEN Abort(<<model, dataset>>)
             ELSE /\ model' = r.model
                  /\ pc' = "p_begin"
                  /\ IF args.nb = "Test"
                       THEN dataset' = dataset
                       ELSE \E n \in 0 .. MaxRows :
                            \E csv \in [1 .. n -> TestRowVals] :
                              /\ IsTestCsv(csv)
                              /\ dataset' = StressDataset(csv, <<ckpt.char2idx>>, "test")
    /\ UNCHANGED <<files, run, args, epoch, order, pos, batch, logits, loss, correct, total,
                   predictions, ids_all, saves, presave>>

\* A loader that hands the rows out last to first.
TestLoaderOrder_reversed(n) == Reverse(SequentialOrder(n))

\* The row order of test_loader.
TestLoaderOrder(n) == SequentialOrder(n)

\* predict up to its first batch: model.eval() and the empty lists.
PredictBegin ==
    /\ pc = "p_begin"
    /\ model' = [model EXCEPT !.training = FALSE]
    /\ predictions' = <<>>
    /\ ids_all' = <<>>
    /\ pos' = 0
    /\ order' = TestLoaderOrder(Len(dataset.words))
    /\ pc' = IF NumBatches(Len(dataset.words), args.batch_size) = 0 THEN "p_write" ELSE "p_fwd"
    /\ UNCHANGED <<files, run, args, dataset, epoch, batch, logits, loss, correct, total,
                   saves, presave>>

PredictForward ==
    /\ pc = "p_fwd"
    /\ batch' = LoaderBatch(dataset, order, args.batch_size, pos)
    /\ IF forwardRaises(model, batch'.encoded, batch'.lengths)
         THEN Abort(<<logits>>)
         ELSE /\ pc' = "p_decode"
              /\ \E lg \in forward(model, batch'.encoded, batch'.lengths) : logits' = lg
    /\ UNCHANGED <<files, run, args, dataset, model, epoch, order, pos, loss, correct, total,
                   predictions, ids_all, saves, presave>>

\* predict's inner loop over the rows of one batch, and ids_all.extend.
PredictDecode ==
    /\ pc = "p_decode"
    /\ IF decodeRaises(logits, batch.num_syllables)
         THEN Abort(<<predictions, ids_all, pos>>)
         ELSE /\ predictions' = predictions \o
                    [i \in 1 .. Len(logits) |-> decode(logits[i], batch.num_syllables[i]) + 1]
              /\ ids_all' = ids_all \o batch.id
              /\ pos' = pos + 1
              /\ pc' = IF pos + 1 < NumBatches(Len(dataset.words), args.batch_size)
                         THEN "p_fwd" ELSE "p_write"
    /\ UNCHANGED <<files, run, args, dataset, model, epoch, order, batch, logits, loss,
                   correct, total, saves, presave>>

\* pd.DataFrame({'id': ids_all, 'words': test_dataset.words, 'stress': preds})
\* needs columns of one length; to_csv writes the file.
WriteSubmission ==
    /\ pc = "p_write"
    /\ IF Len(ids_all) # Len(dataset.words) \/ Len(predictions) # Len(dataset.words)
         THEN Abort(<<submission>>)
         ELSE /\ pc' = "done"
              /\ submission' = [exists |-> TRUE,
                                rows |-> [j \in 1 .. Len(ids_all) |->
                                            [id |-> ids_all[j],
                                             words |-> dataset.words[j],
                                             stress |-> predictions[j]]]]
    /\ UNCHANGED <<ckpt, run, args, dataset, model, epoch, order, pos, batch, logits, loss,
                   correct, total, predictions, ids_all, saves, presave>>

\* The process of the first run has ended; the files stay.
Exit ==
    /\ pc \in {"done", "aborted"} /\ run = 1
    /\ pc' = "idle"
    /\ args' = NoArgs
    /\ dataset' = NoDataset
    /\ model' = NoModel
    /\ epoch' = 0
    /\ order' = <<>>
    /\ pos' = 0
    /\ batch' = NoBatch
    /\ logits' = <<>>
    /\ loss' = NoLoss
    /\ correct' = 0
    /\ total' = 0
    /\ predictions' = <<>>
    /\ ids_all' = <<>>
    /\ saves' = 0
    /\ UNCHANGED <<files, run, presave>>

Next ==
    \/ MainTrain
    \/ TrainBegin
    \/ TrainForward
    \/ TrainLoss
    \/ TrainStep
    \/ EvalBegin
    \/ EvalForward
    \/ EvalDecode
    \/ EvalEnd
    \/ SaveCheckpoint
    \/ MainPredict
    \/ LoadStateDict
    \/ PredictBegin
    \/ PredictForward
    \/ PredictDecode
    \/ WriteSubmission
    \/ Exit

Spec == Init /\ [][Next]_vars

\* ------------------------------------------------ a train run to its end
\* The epoch loop of main, entered with a model built for a train table of
\* one to three rows (valid rows, and rows whose label exceeds the syllable
\* count).  main is one sequential process: while a step is enabled it is
\* eventually taken.
EpochRows(i) ==
    [id : {i},
     word : {IF i = 2 THEN <<2, 1>> ELSE <<1>>},
     num_syllables : {1, 2},
     stress : {1, 2}]

InitEpochs ==
    \E n \in {1, 2, 3}, r1 \in EpochRows(1), r2 \in EpochRows(2), r3 \in EpochRows(3),
       nb \in Notebooks, bs \in 1 .. MaxBatchSize, E \in 1 .. MaxEpochs, w0 \in Weights :
        LET csv == SubSeq(<<r1, r2, r3>>, 1, n)
            ds == StressDataset(csv, <<>>, "train")
            C == IF nb = "Test" THEN MaxOfSeq(ds.num_syllables) ELSE NumClassesDefault
        IN  /\ pc = "t_epoch"
            /\ args = [mode |-> "train", nb |-> nb, batch_size |-> bs, epochs |-> E]
            /\ run = 1
            /\ ckpt = NoFile
            /\ submission = NoFile
            /\ presave = NoModel
            /\ dataset = ds
            /\ model = StressModel(nb, Cardinality(DOMAIN ds.char2idx), C, w0)
            /\ epoch = 0
            /\ order = <<>>
            /\ pos = 0
            /\ batch = NoBatch
            /\ logits = <<>>
            /\ loss = NoLoss
            /\ correct = 0
            /\ total = 0
            /\ predictions = <<>>
            /\ ids_all = <<>>
            /\ saves = 0

NextEpochs ==
    \/ TrainBegin
    \/ TrainForward
    \/ TrainLoss
    \/ TrainStep
    \/ EvalBegin
    \/ EvalForward
    \/ EvalDecode
    \/ EvalEnd
    \/ SaveCheckpoint

SpecEpochsFair == InitEpochs /\ [][NextEpochs]_vars /\ WF_vars(NextEpochs)

\* ------------------------------------------------ one batch, any logits
\* A pass standing just after a forward pass whose logits are arbitrary:
\* train_model before the loss (t_loss), evaluate_model and predict before
\* their decode loops (e_decode, p_decode).  The dataset is the one batch;
\* a second row, when there is one, has the first row's logits reversed.
HarnessSyllableVals == (-1) .. (HarnessClasses + 1)

HarnessStressVals == 0 .. (HarnessClasses + 1)

HarnessLogitVals == {0, 1, 2}

HarnessRows(mode, i) ==
    [id : {IF i = 1 THEN 7 ELSE 9},
     word : {IF i = 1 THEN <<1>> ELSE <<2, 1>>},
     num_syllables : HarnessSyllableVals,
     stress : IF mode = "train" THEN HarnessStressVals ELSE {0}]

HarnessCsv(r1, r2, n) == IF n = 1 THEN <<r1>> ELSE <<r1, r2>>

InitBatch ==
    \E at \in {"t_loss", "e_decode", "p_decode"} :
      \E n \in {1, 2},
         r1 \in HarnessRows(IF at = "p_decode" THEN "test" ELSE "train", 1),
         r2 \in HarnessRows(IF at = "p_decode" THEN "test" ELSE "train", 2),
         L \in [1 .. HarnessClasses -> HarnessLogitVals] :
        LET mode == IF at = "p_decode" THEN "test" ELSE "train"
            csv == HarnessCsv(r1, r2, n)
            ds == StressDataset(csv, <<>>, mode)
            m == [StressModel("Test", Cardinality(DOMAIN ds.char2idx), HarnessClasses, 0)
                    EXCEPT !.training = (at = "t_loss")]
        IN  /\ pc = at
            /\ run = IF at = "p_decode" THEN 2 ELSE 1
            /\ args = [mode |-> IF at = "p_decode" THEN "predict" ELSE "train",
                       nb |-> "Test", batch_size |-> Len(csv), epochs |-> 1]
            /\ dataset = ds
            /\ model = m
            /\ ckpt = IF at = "p_decode"
                        THEN [exists |-> TRUE, model_state_dict |-> state_dict(m),
                              char2idx |-> ds.char2idx]
                        ELSE NoFile
            /\ presave = IF at = "p_decode" THEN m ELSE NoModel
            /\ submission = NoFile
            /\ epoch = 0
            /\ order = SequentialOrder(Len(csv))
            /\ pos = 0
            /\ batch = LoaderBatch(ds, SequentialOrder(Len(csv)), Len(csv), 0)
            /\ logits = IF Len(csv) = 1 THEN <<L>> ELSE <<L, Reverse(L)>>
            /\ loss = NoLoss
            /\ correct = 0
            /\ total = 0
            /\ predictions = <<>>
            /\ ids_all = <<>>
            /\ saves = 0

NextBatch ==
    \/ TrainLoss
    \/ EvalDecode
    \/ PredictDecode

SpecBatch == InitBatch /\ [][NextBatch]_vars

\* ------------------------------------- a dataset and a batch, any table
\* StressDataset.__init__ and one collate_fn call of a DataLoader, for any
\* small table, with no vocabulary handed in or with any vocabulary at all
\* (not only one that build_vocab returns).
HarnessWords == {<<>>, <<1>>, <<2, 1>>, <<1, 2>>, <<3, 1, 1>>}

HarnessVocabs ==
    UNION {{V \in [S \cup {PAD} -> 0 .. 2] : V[PAD] = 0} : S \in SUBSET {1, 2}}

HarnessGiven == {<<>>} \cup {<<V>> : V \in HarnessVocabs}

DataRows(i) ==
    [id : {IF i = 1 THEN 7 ELSE 9},
     word : HarnessWords,
     num_syllables : {1, 2},
     stress : {1, 2}]

\* The lists of row numbers a loader can put into one batch of at most two.
HarnessPicks(n) == UNION {[1 .. len -> 1 .. n] : len \in {1, 2}}

InitData ==
    \E n \in {0, 1, 2}, r1 \in DataRows(1), r2 \in DataRows(2),
       given \in HarnessGiven, mode \in {"train", "test"} :
        /\ pc = "d_csv"
        /\ args = [mode |-> mode, nb |-> "none", batch_size |-> 2, epochs |-> 0,
                   csv |-> IF n = 0 THEN <<>> ELSE HarnessCsv(r1, r2, n),
                   given |-> given]
        /\ run = 0
        /\ ckpt = NoFile
        /\ submission = NoFile
        /\ presave = NoModel
        /\ dataset = NoDataset
        /\ model = NoModel
        /\ epoch = 0
        /\ order = <<>>
        /\ pos = 0
        /\ batch = NoBatch
        /\ logits = <<>>
        /\ loss = NoLoss
        /\ correct = 0
        /\ total = 0
        /\ predictions = <<>>
        /\ ids_all = <<>>
        /\ saves = 0

\* StressDataset(csv_file, char2idx, mode)
DatasetInit ==
    /\ pc = "d_csv"
    /\ dataset' = StressDataset(args.csv, args.given, args.mode)
    /\ pc' = "d_ready"
    /\ UNCHANGED <<files, run, args, model, epoch, order, pos, batch, logits, loss,
                   correct, total, predictions, ids_all, saves, presave>>

\* One batch of a DataLoader: collate_fn([dataset[i] for i in the pick]).
Collate ==
    /\ pc = "d_ready"
    /\ \E pick \in HarnessPicks(Len(dataset.words)) :
        /\ order' = pick
        /\ batch' = collate_fn([i \in 1 .. Len(pick) |-> getitem(dataset, pick[i])])
    /\ pc' = "d_batch"
    /\ UNCHANGED <<files, run, args, dataset, model, epoch, pos, logits, loss,
                   correct, total, predictions, ids_all, saves, presave>>

NextData ==
    \/ DatasetInit
    \/ Collate

SpecData == InitData /\ [][NextData]_vars

\* ---------------------------------------- one evaluation pass, any model
\* evaluate_model called on a train dataset of one to three rows with
\* batch sizes 1..3, so that a pass can end in a batch smaller than the
\* others.
EvalRows(i) ==
    [id : {i},
     word : {<<1>>, <<2, 1>>},
     num_syllables : {1, 2},
     stress : {1, 2}]

InitEval ==
    \E n \in {1, 2, 3}, r1 \in EvalRows(1), r2 \in EvalRows(2), r3 \in EvalRows(3),
       nb \in Notebooks, bs \in {1, 2, 3}, w \in Weights :
        LET csv == SubSeq(<<r1, r2, r3>>, 1, n)
            ds == StressDataset(csv, <<>>, "train")
            C == IF nb = "Test" THEN MaxOfSeq(ds.num_syllables) ELSE NumClassesDefault
        IN  /\ pc = "e_begin"
            /\ args = [mode |-> "train", nb |-> nb, batch_size |-> bs, epochs |-> 1]
            /\ run = 1
            /\ ckpt = NoFile
            /\ submission = NoFile
            /\ presave = NoModel
            /\ dataset = ds
            /\ model = StressModel(nb, Cardinality(DOMAIN ds.char2idx), C, w)
            /\ epoch = 0
            /\ order = SequentialOrder(n)
            /\ pos = NumBatches(n, bs)
            /\ batch = NoBatch
            /\ logits = <<>>
            /\ loss = NoLoss
            /\ correct = 0
            /\ total = 0
            /\ predictions = <<>>
            /\ ids_all = <<>>
            /\ saves = 0

NextEval ==
    \/ EvalBegin
    \/ EvalForward
    \/ EvalDecode
    \/ EvalEnd

SpecEval == InitEval /\ [][NextEval]_vars

\* ============================================================ claims
InDomain(k, C) == 1 <= k /\ k <= C

\* The lowest 0-indexed position of L[0:k] that holds the maximum of L[0:k].
LowestMaxIndex(L, k) ==
    CHOOSE j \in 0 .. (k - 1) :
        /\ \A q \in 0 .. (k - 1) : L[q + 1] <= L[j + 1]
        /\ \A q \in 0 .. (j - 1) : L[q + 1] < L[j + 1]

\* The rows that agree with L on its first k entries.
TailVariants(L, k) ==
    {L2 \in [1 .. Len(L) -> HarnessLogitVals] : \A j \in 1 .. k : L2[j] = L[j]}

\* The prediction predict appended for row i of the batch just decoded.
PredictionOfRow(i) == predictions[Len(predictions) - Len(logits) + i]

\* C1: for a row with syllable count k, 1 <= k <= C, predict appends 1 + the
\* lowest index of [0, k) at which the row's logits are maximal over L[0:k],
\* whatever the entries L[k..C-1] are; evaluate_model counts a row as correct
\* exactly when that same index (without the +1) equals stress - 1.
C1_MaskedDecode ==
    /\ (pc \in {"p_fwd", "p_write"} /\ pos > 0) =>
          \A i \in 1 .. Len(logits) :
              LET k == batch.num_syllables[i]
                  L == logits[i]
              IN  InDomain(k, Len(L)) =>
                    /\ PredictionOfRow(i) = 1 + LowestMaxIndex(L, k)
                    /\ \A L2 \in TailVariants(L, k) : 1 + decode(L2, k) = PredictionOfRow(i)
    /\ (pc \in {"e_fwd", "e_end"} /\ pos = 1
          /\ \A i \in 1 .. Len(logits) : InDomain(batch.num_syllables[i], Len(logits[i]))) =>
          /\ total = Len(logits)
          /\ correct = Cardinality({i \in 1 .. Len(logits) :
                          LowestMaxIndex(logits[i], batch.num_syllables[i]) = batch.stress[i] - 1})

\* C1 witness: k = 2 of 3 classes, a tie inside the prefix and a larger
\* logit outside it: the prediction is 1.
C1_Witness ==
    /\ pc = "p_write"
    /\ batch.num_syllables = <<2>>
    /\ logits = <<<<1, 1, 2>>>>
    /\ predictions = <<1>>

\* C2: every stress value predict emits for a row lies in
\* [1, num_syllables] of that row.
C2_PredictionInRange ==
    args.mode = "predict" =>
        \A j \in 1 .. Len(predictions) :
            1 <= predictions[j] /\ predictions[j] <= dataset.num_syllables[j]

\* C2: a row with syllable count 1 gets prediction 1.
C2_OneSyllable ==
    args.mode = "predict" =>
        \A j \in 1 .. Len(predictions) : dataset.num_syllables[j] = 1 => predictions[j] = 1

FirstK(L, k) == [j \in 1 .. k |-> L[j]]

\* C3: for rows with 1 <= k_i <= C the loss is the sum over the rows of the
\* cross-entropy of the first k_i logits against stress_i - 1, divided by the
\* batch size, and changing a logit at an index >= k_i of such a row leaves
\* the batch loss as it is.
C3_MaskedLoss ==
    pc = "t_step" =>
        /\ loss.div = Len(logits)
        /\ Len(loss.terms) = Len(logits)
        /\ \A i \in 1 .. Len(logits) :
              LET k == batch.num_syllables[i]
              IN  InDomain(k, Len(logits[i])) =>
                    /\ loss.terms[i] = [logits |-> FirstK(logits[i], k),
                                        target |-> batch.stress[i] - 1]
                    /\ \A j \in (k + 1) .. Len(logits[i]), v \in HarnessLogitVals :
                          masked_cross_entropy_loss([logits EXCEPT ![i][j] = v],
                                                    batch.stress, batch.num_syllables) = loss

C3_Witness ==
    /\ pc = "t_step"
    /\ batch.num_syllables = <<2, 1>>
    /\ batch.stress = <<2, 1>>
    /\ logits = <<<<0, 1, 2>>, <<2, 1, 0>>>>
    /\ loss.div = 2

ValidSyllables(b, i) == b.num_syllables[i] >= 1 /\ b.lengths[i] >= 1

ValidLabel(b, i) == 1 <= b.stress[i] /\ b.stress[i] <= b.num_syllables[i]

\* C4: no pass gets past the loss or the decode of a batch that holds a row
\* with a syllable count < 1, a stress label outside [1, syllable count] or
\* a word of length zero: the run has aborted instead.
C4_AbortOnViolation ==
    /\ pc = "t_step" =>
          \A i \in 1 .. Len(logits) : ValidSyllables(batch, i) /\ ValidLabel(batch, i)
    /\ (pc \in {"e_fwd", "e_end"} /\ pos > 0) =>
          \A i \in 1 .. Len(logits) : ValidSyllables(batch, i) /\ ValidLabel(batch, i)
    /\ (pc \in {"p_fwd", "p_write"} /\ pos > 0) =>
          \A i \in 1 .. Len(logits) : ValidSyllables(batch, i)


\* ---- C5
\* The predict run that main starts with the notebook that trained the
\* checkpoint has built its model.
PredictModelBuilt ==
    /\ args.mode = "predict"
    /\ model.built
    /\ model.dirs = ckpt.model_state_dict.shape.dirs

\* C5: in a predict run the model is constructed with the class count of
\* the checkpoint's model (the one the train run used), whatever the syllable
\* counts of the inference dataset are.
C5_ClassCountFromCheckpoint ==
    PredictModelBuilt => model.num_classes = ckpt.model_state_dict.shape.num_classes

\* The vocabulary size at predict is the one the checkpoint's model has, and
\* Copy1's class count is the checkpoint's.
C5_VocabSizeFromCheckpoint ==
    PredictModelBuilt =>
        /\ model.vocab_size = ckpt.model_state_dict.shape.vocab_size
        /\ args.nb = "Copy1" => model.num_classes = ckpt.model_state_dict.shape.num_classes

\* ---- C6
ShapeDisagrees ==
    \/ ckpt.model_state_dict.shape.vocab_size # model.vocab_size
    \/ ckpt.model_state_dict.shape.num_classes # model.num_classes

PastLoad == pc \in {"p_begin", "p_fwd", "p_decode", "p_write"}
            \/ (pc = "done" /\ args.mode = "predict")

\* C6: when the checkpoint's vocabulary size or class count disagrees with
\* the constructed model, the step at load_state_dict ends the run in an
\* error with no logits, no prediction and no submission file; and whatever
\* runs after the load runs with exactly the checkpoint's parameters.
C6_MismatchIsFatal ==
    /\ [][pc = "p_load" /\ ShapeDisagrees =>
            /\ pc' = "aborted"
            /\ model' = model
            /\ logits' = <<>> /\ predictions' = <<>> /\ submission' = NoFile]_vars
    /\ [](args.mode = "predict" /\ model.built /\ pc = "aborted" /\ ShapeDisagrees =>
            logits = <<>> /\ predictions = <<>> /\ submission = NoFile)
    /\ [](PastLoad => /\ ShapeOf(model) = ckpt.model_state_dict.shape
                      /\ model.w = ckpt.model_state_dict.w)

C6_Witness ==
    /\ pc = "aborted" /\ args.mode = "predict" /\ model.built
    /\ model.dirs = ckpt.model_state_dict.shape.dirs
    /\ model.num_classes = 1 /\ ckpt.model_state_dict.shape.num_classes = 2
    /\ submission = NoFile /\ predictions = <<>>

\* ---- C7
\* C7: a predict run's dataset carries the checkpoint's char2idx and its
\* words are encoded with it; a train run's char2idx is the one built from
\* its words, the checkpoint stores that mapping, and nothing but a train
\* run's save changes the stored mapping.
C7_VocabularyFromCheckpoint ==
    /\ [](args.mode = "predict" /\ dataset.mode = "test" =>
            /\ dataset.char2idx = ckpt.char2idx
            /\ dataset.encoded_words =
                 [i \in 1 .. Len(dataset.words) |->
                    encode_word(dataset.words[i], ckpt.char2idx)])
    /\ [](args.mode = "train" => dataset.char2idx = build_vocab(dataset.words))
    /\ [][ckpt' # ckpt => /\ args.mode = "train"
                          /\ ckpt'.char2idx = dataset.char2idx
                          /\ dataset' = dataset]_vars

\* A predict run has ended on a word with a character the training words
\* do not have: it is encoded as 0, and the mapping is still the stored one.
C7_Witness ==
    /\ pc = "done" /\ args.mode = "predict"
    /\ dataset.words = << <<3, 1>> >>
    /\ dataset.encoded_words[1][1] = 0 /\ dataset.encoded_words[1][2] # 0
    /\ 3 \notin DOMAIN ckpt.char2idx

\* ---- C8
\* C8: a train run saves once, in its last step, after the evaluation pass
\* of the last epoch; the file holds the model's parameters and the train
\* dataset's char2idx; a train run that aborts has written nothing.
C8_SaveOnceAtEnd ==
    /\ [](args.mode = "train" => saves = (IF pc = "done" THEN 1 ELSE 0))
    /\ [](args.mode = "train" /\ pc = "aborted" => ckpt = NoFile)
    /\ [][ckpt' # ckpt =>
            /\ args.mode = "train" /\ pc = "t_epoch" /\ pc' = "done"
            /\ epoch = args.epochs /\ epoch >= 1
            /\ total = Len(dataset.words) /\ ~model.training
            /\ ckpt' = [exists |-> TRUE,
                        model_state_dict |-> state_dict(model),
                        char2idx |-> dataset.char2idx]]_vars

C8_Witness ==
    /\ pc = "done" /\ args.mode = "train" /\ args.epochs = 2 /\ epoch = 2
    /\ saves = 1 /\ ckpt.exists
    /\ ckpt.model_state_dict.w = model.w
    /\ ckpt.char2idx = build_vocab(dataset.words)

\* ---- C9
\* predict(m, loader over ds) for a model whose forward does not raise.
PredictionsOf(m, ds, batch_size) ==
    LET n == Len(ds.words)
        me == [m EXCEPT !.training = FALSE]
    IN  [j \in 1 .. n |->
           LET b == LoaderBatch(ds, SequentialOrder(n), batch_size, (j - 1) \div batch_size)
               i == ((j - 1) % batch_size) + 1
               lg == CHOOSE l \in forward(me, b.encoded, b.lengths) : TRUE
           IN  decode(lg[i], b.num_syllables[i]) + 1]

RowPrediction(m, ds, j) ==
    LET b == collate_fn(<<getitem(ds, j)>>)
        lg == CHOOSE l \in forward(m, b.encoded, b.lengths) : TRUE
    IN  decode(lg[1], ds.num_syllables[j]) + 1

HarnessWordLists == UNION {[1 .. n -> HarnessWords] : n \in {0, 1, 2, 3}}

DatasetBuilt == pc \in {"d_ready", "d_batch"}

\* C11: the vocabulary built from a word list gives the i-th smallest
\* distinct character the index i, so every word list with the same set of
\* characters (any order, any repetition) gets the same mapping.
C11_SortedOrderIndependent ==
    DatasetBuilt /\ args.given = <<>> =>
        LET chars == WordChars(dataset.words)
        IN  /\ \A ch \in chars :
                 dataset.char2idx[ch] = Cardinality({c \in chars : c <= ch})
            /\ \A W2 \in HarnessWordLists :
                 WordChars(W2) = chars => build_vocab(W2) = dataset.char2idx

C11_Witness ==
    /\ pc = "d_ready" /\ args.given = <<>>
    /\ dataset.words = << <<2, 1>>, <<1>> >>
    /\ dataset.char2idx[1] = 1 /\ dataset.char2idx[2] = 2
    /\ build_vocab(<< <<1, 2>>, <<1, 2>>, <<2, 1>> >>) = dataset.char2idx

\* ---- C12
\* C12: the built vocabulary has exactly the characters of the words plus
\* the padding entry, gives the padding entry 0 and every character an index
\* > 0, is one-to-one onto 0..N, idx2char inverts it, and for a list with no
\* character it holds the padding entry only.
C12_Bijection ==
    DatasetBuilt /\ args.given = <<>> =>
        LET V == dataset.char2idx
            chars == WordChars(dataset.words)
            N == Cardinality(chars)
            inv == idx2char(V)
        IN  /\ DOMAIN V = chars \cup {PAD}
            /\ V[PAD] = 0
            /\ \A ch \in chars : V[ch] > 0
            /\ \A a, b \in DOMAIN V : V[a] = V[b] => a = b
            /\ {V[ch] : ch \in DOMAIN V} = 0 .. N
            /\ DOMAIN inv = 0 .. N
            /\ \A ch \in DOMAIN V : inv[V[ch]] = ch
            /\ chars = {} => DOMAIN V = {PAD}

C12_Witness ==
    /\ pc = "d_ready" /\ args.given = <<>>
    /\ dataset.words = << <<3, 1, 1>>, <<2, 1>> >>
    /\ dataset.char2idx[3] = 3 /\ dataset.char2idx[PAD] = 0
    /\ idx2char(dataset.char2idx)[3] = 3

\* ---- C13
\* The vocabulary the dataset's words are encoded with.
VocabUsed == IF args.given = <<>> THEN dataset.char2idx ELSE args.given[1]

\* C13: with any vocabulary, the construction of the dataset does not raise
\* and each encoded word has the word's length, its p-th element being the
\* vocabulary's index of the p-th character, or 0 for a character the
\* vocabulary does not have.
C13_EncodeTotal ==
    /\ [][pc = "d_csv" => pc' = "d_ready"]_vars
    /\ [](DatasetBuilt =>
            \A i \in 1 .. Len(dataset.words) :
                LET word == dataset.words[i]
                    e == dataset.encoded_words[i]
                IN  /\ Len(e) = Len(word)
                    /\ \A p \in 1 .. Len(word) :
                         e[p] = IF word[p] \in DOMAIN VocabUsed
                                  THEN VocabUsed[word[p]] ELSE 0)

C13_Witness ==
    /\ pc = "d_ready" /\ args.given # <<>>
    /\ DOMAIN args.given[1] = {PAD, 1} /\ args.given[1][1] = 2
    /\ dataset.words = << <<3, 1, 1>> >>
    /\ dataset.encoded_words = << <<0, 2, 2>> >>

\* ---- C14
\* The records handed to collate_fn for the batch in `batch`.
BatchItems == [i \in 1 .. Len(order) |-> getitem(dataset, order[i])]

\* C14: the batch has one row per record in the order given; row i is
\* record i's encoded word followed by zeros up to the longest encoded word
\* of the batch; lengths[i] is its unpadded length; id, num_syllables and
\* (in a train dataset) stress at position i are record i's.
C14_Collate ==
    pc = "d_batch" =>
        LET items == BatchItems
            n == Len(items)
            width == CHOOSE w \in 0 .. 3 :
                        /\ \A i \in 1 .. n : Len(items[i].encoded) <= w
                        /\ \E i \in 1 .. n : Len(items[i].encoded) = w
        IN  /\ n >= 1
            /\ Len(batch.encoded) = n /\ Len(batch.lengths) = n
            /\ Len(batch.id) = n /\ Len(batch.num_syllables) = n
            /\ \A i \in 1 .. n :
                 /\ Len(batch.encoded[i]) = width
                 /\ batch.lengths[i] = Len(items[i].encoded)
                 /\ \A p \in 1 .. width :
                      batch.encoded[i][p] = IF p <= Len(items[i].encoded)
                                              THEN items[i].encoded[p] ELSE 0
                 /\ batch.id[i] = items[i].id
                 /\ batch.num_syllables[i] = items[i].num_syllables
                 /\ args.mode = "train" =>
                      Len(batch.stress) = n /\ batch.stress[i] = dataset.stresses[order[i]]
            /\ args.mode = "test" => batch.stress = <<>>

C14_Witness ==
    /\ pc = "d_batch" /\ args.mode = "train" /\ args.given = <<>>
    /\ order = <<2, 1>>
    /\ dataset.words = << <<1>>, <<3, 1, 1>> >>
    /\ batch.encoded = << <<2, 1, 1>>, <<1, 0, 0>> >>
    /\ batch.lengths = <<3, 1>>
    /\ batch.id = <<9, 7>>
    /\ batch.stress = <<2, 1>> /\ batch.num_syllables = <<2, 1>>

\* ---- C15
RECURSIVE GCD(_, _)
GCD(a, b) == IF b = 0 THEN a ELSE GCD(b, a % b)

\* correct / total as a fraction in lowest terms.
Accuracy(c, t) == [num |-> c \div GCD(c, t), den |-> t \div GCD(c, t)]

\* The rows of the dataset whose restricted argmax, under the model as it
\* is, equals stress - 1.
CorrectRows ==
    {j \in 1 .. Len(dataset.words) :
        PredictionsOf(model, dataset, args.batch_size)[j] - 1 = dataset.stresses[j] - 1}

\* C15: when evaluate_model's loop has ended, total is the number of rows
\* of the dataset and correct the number of rows whose restricted argmax is
\* stress - 1, so the value returned is that fraction.
C15_ExactMatchRate ==
    pc = "e_end" =>
        /\ total = Len(dataset.words)
        /\ correct = Cardinality(CorrectRows)
        /\ Accuracy(correct, total) = Accuracy(Cardinality(CorrectRows), Len(dataset.words))

\* Three rows in batches of two (the last batch has one row), two of the
\* three correct.
C15_Witness ==
    /\ pc = "e_end" /\ args.batch_size = 2 /\ Len(dataset.words) = 3
    /\ pos = 2 /\ Len(logits) = 1
    /\ correct = 2 /\ total = 3
    /\ Accuracy(correct, total) = [num |-> 2, den |-> 3]

\* ---- C16
\* The logits the model can return for the encoded word e alone, padded
\* with zeros to the width w and reported with its true length.
RowLogits(m, e, w) == {lg[1] : lg \in forward(m, <<PadTo(e, w)>>, <<Len(e)>>)}

AfterForward == pc \in {"t_loss", "t_step", "e_decode", "p_decode"}

\* C16: whatever the other rows of its batch are, a row's logits are logits
\* the model returns for the row's word alone without padding; the logits of
\* a word are the same for every number of trailing zeros; and the row's
\* loss term is computed from the row's own logits, syllable count and label.
C16_PaddingInert ==
    AfterForward =>
        \A i \in 1 .. Len(logits) :
            LET e == SubSeq(batch.encoded[i], 1, batch.lengths[i])
                alone == RowLogits(model, e, Len(e))
            IN  /\ logits[i] \in alone
                /\ \A w \in (Len(e) + 1) .. (Len(e) + 2) : RowLogits(model, e, w) = alone
                /\ pc = "t_step" =>
                     loss.terms[i] = cross_entropy(Slice(logits[i], batch.num_syllables[i]),
                                                   batch.stress[i] - 1)

\* A batch of a one-character word padded to the width of a two-character
\* word has been through the forward pass.
C16_Witness ==
    /\ pc = "t_step" /\ model.training
    /\ batch.lengths = <<1, 2>>
    /\ Len(batch.encoded[1]) = 2 /\ batch.encoded[1][2] = 0
    /\ Len(logits) = 2 /\ Len(loss.terms) = 2

\* ---- C17
\* C17: whenever a model has produced logits for a batch (in training,
\* evaluation or prediction), its class count is at least the syllable
\* count of every example of the batch.
C17_ClassCountCoversSyllables ==
    AfterForward =>
        \A i \in 1 .. Len(logits) : model.num_classes >= batch.num_syllables[i]

\* Test sizes each model by the largest syllable count of the dataset it is
\* built for.
C17_TestNotebook ==
    AfterForward /\ args.nb = "Test" =>
        \A j \in 1 .. Len(dataset.words) : model.num_classes >= dataset.num_syllables[j]

\* ---- C18
InEvaluate == pc \in {"e_begin", "e_fwd", "e_decode", "e_end"}

InPredict == pc \in {"p_begin", "p_fwd", "p_decode"}

NoiseFree(m, b, lg) ==
    /\ \A i \in 1 .. Len(b.lengths) :
         DropoutOutcomes(m, Summary(m, b.encoded[i], b.lengths[i]))
           = {Summary(m, b.encoded[i], b.lengths[i])}
    /\ forward(m, b.encoded, b.lengths) = {lg}

\* C19: every forward pass of train_model runs with the model in training
\* mode, in every epoch; every forward pass of evaluate_model and predict
\* runs in inference mode and its logits carry no dropout noise.
C19_ModeOfEachForward ==
    /\ [](pc \in {"t_fwd", "t_loss", "t_step"} => model.training)
    /\ [](pc \in {"e_fwd", "e_decode", "p_fwd", "p_decode"} => ~model.training)
    /\ [][(pc = "e_fwd" \/ pc = "p_fwd") /\ (pc' = "e_decode" \/ pc' = "p_decode") =>
            NoiseFree(model, batch', logits')]_vars

\* In the second epoch, after an evaluation pass, Copy1's training forward
\* pass has returned logits that differ from the noise-free ones.
C19_Witness ==
    /\ pc = "t_loss" /\ epoch = 1 /\ model.dropout /\ model.training
    /\ logits \notin forward([model EXCEPT !.training = FALSE], batch.encoded, batch.lengths)

\* ---- C20
\* A non-empty train dataset every row of which has a word of at least one
\* character and 1 <= stress <= num_syllables <= the model's class count.
ValidTrainDataset ==
    /\ Len(dataset.words) >= 1
    /\ \A j \in 1 .. Len(dataset.words) :
         /\ Len(dataset.words[j]) >= 1
         /\ 1 <= dataset.stresses[j]
         /\ dataset.stresses[j] <= dataset.num_syllables[j]
         /\ dataset.num_syllables[j] <= model.num_classes

TrainBatches == NumBatches(Len(dataset.words), args.batch_size)

\* The places (batch, position) of the training pass that hold row r.
PlacesOfRow(r) ==
    {bi \in (0 .. (TrainBatches - 1)) \X (1 .. args.batch_size) :
        LET b == LoaderBatch(dataset, order, args.batch_size, bi[1])
        IN  bi[2] <= Len(b.id) /\ b.id[bi[2]] = dataset.ids[r]}

InTrainPass == pc \in {"t_fwd", "t_loss", "t_step"}

RunVocab == IF args.mode = "predict" THEN ckpt.char2idx ELSE dataset.char2idx

VocabLen(V) == Cardinality(DOMAIN V)

\* C21: in a train run and in a predict run, every element of every encoded
\* word of the dataset and every entry of every batch (padding included) is
\* in 0 .. len(V) - 1 for the vocabulary V that encoded the data, the model
\* is constructed with vocab_size = len(V) for that same V, and so no
\* forward pass is refused for an embedding index out of range.
C21_EmbeddingIndexInRange ==
    /\ [](dataset.mode # "none" =>
            /\ dataset.char2idx = RunVocab
            /\ \A i \in 1 .. Len(dataset.encoded_words) :
                 \A p \in 1 .. Len(dataset.encoded_words[i]) :
                    /\ 0 <= dataset.encoded_words[i][p]
                    /\ dataset.encoded_words[i][p] <= VocabLen(dataset.char2idx) - 1)
    /\ [](model.built /\ args.mode \in {"train", "predict"} =>
            model.vocab_size = VocabLen(RunVocab))
    /\ [](model.built =>
            \A i \in 1 .. Len(batch.encoded) :
                \A p \in 1 .. Len(batch.encoded[i]) :
                    /\ 0 <= batch.encoded[i][p]
                    /\ batch.encoded[i][p] <= model.vocab_size - 1)
    /\ [][(pc = "t_fwd" \/ pc = "e_fwd" \/ pc = "p_fwd") /\ pc' = "aborted" =>
            \E i \in 1 .. Len(batch'.lengths) : batch'.lengths[i] <= 0]_vars

\* A predict batch holds a word with a character the checkpoint's
\* vocabulary does not have, next to a shorter word padded with 0.
C21_Witness ==
    /\ pc = "p_decode" /\ args.mode = "predict"
    /\ VocabLen(ckpt.char2idx) = 3 /\ model.vocab_size = 3
    /\ dataset.words = << <<1>>, <<3, 1>> >>
    /\ batch.encoded = << <<1, 0>>, <<0, 1>> >>

====
